---- MODULE Spec2Model ----
(***************************************************************************)
(* Identity resolution engine of CAMERA_AI: the face database of           *)
(* face_recognizer.py (FaceRecognizer) and the person registry and         *)
(* resolver of person_tracker.py (PersonTracker).                          *)
(*                                                                         *)
(* Encodings are points on a line, so that the Euclidean norm computed by  *)
(* face_recognition.face_distance is the absolute difference.  Distances,  *)
(* tolerances and confidences are counted in hundredths (0.6 is 60).       *)
(* Python's None is the integer 0: face ids, unique ids and track ids are  *)
(* all positive.                                                           *)
(***************************************************************************)
EXTENDS Integers, Sequences, FiniteSets, TLC

None == 0

\* ---- bounds ----
MaxFaceId == 3        \* _add_new_face is not called once next_face_id exceeds this
MaxOps == 4           \* operations applied to one FaceRecognizer
MaxFrames == 3        \* frames handed to detect_and_track
MaxFaceFrames == 4    \* frames of the runs in which every crop shows a face
MaxDetections == 2    \* detections in one frame
MaxHistoryFrames == 32 \* frames of the runs that follow one track past the history cap
MaxOrderFrames == 5   \* frames of the runs with one detection per frame
MaxCoordinate == 4    \* largest coordinate of a bounding box
MaxSide == 3          \* largest height and width of a frame

\* ---- inputs ----
Encodings == {0, 40, 80}
Tolerances == {40, 60}
Names == {"alice", "bob"}
FaceIds == 1..MaxFaceId
TrackIds == {1, 2, 3, 4}
FewTrackIds == {1, 2}

DefaultTolerance == 60
TrainTolerance == 60
One == 100

VARIABLES
    known_face_encodings,   \* FaceRecognizer.known_face_encodings
    known_face_ids,         \* FaceRecognizer.known_face_ids
    known_face_names,       \* FaceRecognizer.known_face_names
    next_face_id,           \* FaceRecognizer.next_face_id
    tolerance,              \* FaceRecognizer.tolerance
    disk,                   \* the pickle file at the database path
    persons,                \* PersonTracker.persons
    track_id_to_unique_id,  \* PersonTracker.track_id_to_unique_id
    next_unique_id,         \* PersonTracker.next_unique_id
    use_face_recognition,   \* PersonTracker.use_face_recognition
    now,                    \* datetime.now(), counted in processed frames
    resolved,               \* <<track_id, face_id>> pairs resolved by _process_faces since the last reset
    observed,               \* per track_id, the boxes handed to _update_person_info since the last reset
    ops,                    \* operations applied to the FaceRecognizer so far
    issued,                 \* ids returned by _add_new_face since construction or the last load
    ever_issued,            \* ids returned by _add_new_face since construction
    last                    \* the last operation, its arguments and its result (for
                            \* merge_faces, the number of records it removed)

dbvars == <<known_face_encodings, known_face_ids, known_face_names, next_face_id, tolerance>>
trvars == <<persons, track_id_to_unique_id, next_unique_id, use_face_recognition, now, resolved,
            observed>>
vars == <<known_face_encodings, known_face_ids, known_face_names, next_face_id, tolerance,
          disk, persons, track_id_to_unique_id, next_unique_id, use_face_recognition,
          now, resolved, observed, ops, issued, ever_issued, last>>

\* ---- helpers ----
Range(s) == {s[i] : i \in 1..Len(s)}

EmptyMap == [x \in {} |-> 0]

\* d[k] = v on a Python dict
DictSet(d, k, v) == [x \in (DOMAIN d) \cup {k} |-> IF x = k THEN v ELSE d[x]]

\* del d[k]
DictDel(d, k) == [x \in (DOMAIN d) \ {k} |-> d[x]]

\* del s[idx] on a Python list (idx is 1-based here)
ListDel(s, idx) == [i \in 1..(Len(s) - 1) |-> IF i < idx THEN s[i] ELSE s[i + 1]]

\* The database as one value.
DB(encs, ids, names, nid, tol) ==
    [encodings |-> encs, ids |-> ids, names |-> names, next_id |-> nid, tolerance |-> tol]

CurDB == DB(known_face_encodings, known_face_ids, known_face_names, next_face_id, tolerance)

\* ---- FaceRecognizer._match_face ----

DistanceMutant(a, b) == a - b

\* np.linalg.norm(a - b) for one-dimensional encodings
Distance(a, b) == IF a >= b THEN a - b ELSE b - a

\* face_recognition.face_distance(known, encoding)
FaceDistance(encs, e) == [i \in 1..Len(encs) |-> Distance(encs[i], e)]

\* np.argmin: a left-to-right scan that keeps the first minimum
RECURSIVE ArgMinScan(_, _, _)
ArgMinScan(ds, i, best) ==
    IF i > Len(ds) THEN best
    ELSE ArgMinScan(ds, i + 1, IF ds[i] < ds[best] THEN i ELSE best)

ArgMinLast(ds) == ArgMinScan([i \in 1..Len(ds) |-> ds[Len(ds) + 1 - i]], 2, 1)

ArgMinMutant(ds) == Len(ds) + 1 - ArgMinLast(ds)

ArgMin(ds) == ArgMinScan(ds, 2, 1)

NoMatch == [face_id |-> None, confidence |-> 0]

WithinToleranceMutant(d, tol) == d < tol

WithinTolerance(d, tol) == d <= tol

MatchFace(db, e) ==
    IF Len(db.encodings) = 0 THEN NoMatch
    ELSE LET distances == FaceDistance(db.encodings, e)
             best_match_idx == ArgMin(distances)
             best_distance == distances[best_match_idx]
         IN  IF WithinTolerance(best_distance, db.tolerance)
             THEN [face_id |-> db.ids[best_match_idx], confidence |-> One - best_distance]
             ELSE NoMatch

\* ---- FaceDatabase.find_match of face_watcher.py ----
TOLERANCE == 45

\* FaceDatabase.load: the file's encodings, ids and names under the configured tolerance
WatcherDB(data) == [data EXCEPT !.tolerance = TOLERANCE]

NotFound(distance) == [found |-> FALSE, name |-> "", face_id |-> None, distance |-> distance]

\* The name returned is names[face_id], or "ID_<face_id>" when the id has none
\* (name "" with the id).  No distance is returned for an empty database (-1).
FindMatch(db, e) ==
    IF Len(db.encodings) = 0 THEN NotFound(0 - 1)
    ELSE LET distances == FaceDistance(db.encodings, e)
             best_match_idx == ArgMin(distances)
             best_distance == distances[best_match_idx]
         IN  IF WithinTolerance(best_distance, db.tolerance)
             THEN LET face_id == db.ids[best_match_idx]
                  IN  [found |-> TRUE,
                       name |-> IF face_id \in DOMAIN db.names THEN db.names[face_id] ELSE "",
                       face_id |-> IF face_id \in DOMAIN db.names THEN None ELSE face_id,
                       distance |-> best_distance]
             ELSE NotFound(best_distance)

\* ---- FaceRecognizer._add_new_face ----
AddedIdMutant(db) == IF Len(db.ids) = 0 THEN 1 ELSE db.ids[Len(db.ids)] + 1

AddedId(db) == db.next_id

AddNewFaceMutant(db, e) ==
    [db EXCEPT !.encodings = IF e \in Range(@) THEN @ ELSE Append(@, e),
               !.ids = Append(@, AddedId(db)),
               !.next_id = db.next_id + 1]

AddNewFace(db, e) ==
    [db EXCEPT !.encodings = Append(@, e),
               !.ids = Append(@, AddedId(db)),
               !.next_id = db.next_id + 1]

\* ---- FaceRecognizer.detect_faces ----
\* crop is the sequence of encodings face_recognition finds in the image.  The
\* result is the database after the call and the FaceData list returned.
RECURSIVE DetectFacesFrom(_, _, _, _)
DetectFacesFrom(db, crop, i, faces) ==
    IF i > Len(crop) THEN [db |-> db, faces |-> faces]
    ELSE LET m == MatchFace(db, crop[i])
             db2 == IF m.face_id = None THEN AddNewFace(db, crop[i]) ELSE db
             face_id == IF m.face_id = None THEN AddedId(db) ELSE m.face_id
             face == [face_id |-> face_id, encoding |-> crop[i],
                      name |-> IF face_id \in DOMAIN db.names THEN db.names[face_id] ELSE "",
                      confidence |-> m.confidence]
         IN  DetectFacesFrom(db2, crop, i + 1, Append(faces, face))

DetectFaces(db, crop) == DetectFacesFrom(db, crop, 1, <<>>)

\* ---- FaceRecognizer.merge_faces ----
\* The indices holding face_id_2, deleted from the highest down.
RECURSIVE RemoveTagged(_, _, _)
RemoveTagged(db, fid, idx) ==
    IF idx = 0 THEN db
    ELSE IF db.ids[idx] = fid
         THEN RemoveTagged([db EXCEPT !.encodings = ListDel(@, idx), !.ids = ListDel(@, idx)],
                           fid, idx - 1)
         ELSE RemoveTagged(db, fid, idx - 1)

TransferNameMutant(names, face_id_1, face_id_2) ==
    IF face_id_2 \in DOMAIN names
    THEN IF face_id_1 \notin DOMAIN names
         THEN DictSet(names, face_id_1, names[face_id_2])
         ELSE names
    ELSE names

TransferNameOverwriteMutant(names, face_id_1, face_id_2) ==
    IF face_id_2 \in DOMAIN names
    THEN DictDel(DictSet(names, face_id_1, names[face_id_2]), face_id_2)
    ELSE names

TransferName(names, face_id_1, face_id_2) ==
    IF face_id_2 \in DOMAIN names
    THEN DictDel(IF face_id_1 \notin DOMAIN names
                 THEN DictSet(names, face_id_1, names[face_id_2])
                 ELSE names, face_id_2)
    ELSE names

MergeFacesMutant(db, face_id_1, face_id_2) ==
    LET removed == RemoveTagged(db, face_id_2, Len(db.ids))
        names == TransferName(db.names, face_id_1, face_id_2)
    IN  [removed EXCEPT !.names = [id \in (DOMAIN names) \cap {face_id_1} |-> names[id]]]

MergeFaces(db, face_id_1, face_id_2) ==
    LET removed == RemoveTagged(db, face_id_2, Len(db.ids))
    IN  [removed EXCEPT !.names = TransferName(db.names, face_id_1, face_id_2)]

\* ---- FaceRecognizer.get_statistics ----
GetStatistics(db) ==
    [total_faces |-> Len(db.encodings),
     named_faces |-> Cardinality(DOMAIN db.names),
     unnamed_faces |-> Len(db.encodings) - Cardinality(DOMAIN db.names),
     next_face_id |-> db.next_id]

\* ---- FaceRecognizer.save_database / load_database, train_model.train ----
\* The file at the database path: whether it exists, whether pickle.load can
\* decode it, the keys of the dict it holds and the values under them.
Keys == {"encodings", "ids", "names", "next_id", "tolerance"}

NoFile ==
    [exists |-> FALSE, decodable |-> FALSE, keys |-> {},
     data |-> DB(<<>>, <<>>, EmptyMap, 1, DefaultTolerance)]

SavedFileMutant(db) == [exists |-> TRUE, decodable |-> TRUE, keys |-> Keys \ {"tolerance"}, data |-> db]

\* save_database: the five fields pickled as one dict
SavedFile(db) == [exists |-> TRUE, decodable |-> TRUE, keys |-> Keys, data |-> db]

\* lines 184-188 when no lookup fails: data.get falls back to {} for the
\* names and to the recognizer's own tolerance
LoadedDB(db, file) ==
    DB(file.data.encodings, file.data.ids,
       IF "names" \in file.keys THEN file.data.names ELSE EmptyMap,
       file.data.next_id,
       IF "tolerance" \in file.keys THEN file.data.tolerance ELSE db.tolerance)

\* What load_database hands to its caller: True, False, or an exception.
LoadTrue == 1
LoadFalse == 0
Raised == 2

LoadDatabaseMutant(db, file) ==
    IF ~file.exists THEN [db |-> file.data, ret |-> LoadFalse]
    ELSE [db |-> LoadedDB(db, file), ret |-> LoadTrue]

\* load_database: the database after the call and what the caller gets.  The
\* fields are assigned one after the other, so a KeyError leaves the ones
\* assigned before it in place.
LoadDatabase(db, file) ==
    IF ~file.exists THEN [db |-> db, ret |-> LoadFalse]
    ELSE IF ~file.decodable THEN [db |-> db, ret |-> Raised]
    ELSE IF "encodings" \notin file.keys THEN [db |-> db, ret |-> Raised]
    ELSE LET db1 == [db EXCEPT !.encodings = file.data.encodings]
         IN  IF "ids" \notin file.keys THEN [db |-> db1, ret |-> Raised]
             ELSE LET db2 == [db1 EXCEPT !.ids = file.data.ids,
                                         !.names = LoadedDB(db, file).names]
                  IN  IF "next_id" \notin file.keys THEN [db |-> db2, ret |-> Raised]
                      ELSE [db |-> LoadedDB(db, file), ret |-> LoadTrue]

\* train(): one id per person folder, in sorted folder order; images[i] are the
\* encodings found in the images of folder i.
RECURSIVE TrainFrom(_, _, _, _)
TrainFrom(db, folders, images, i) ==
    IF i > Len(folders) THEN db
    ELSE LET current_face_id == db.next_id
             tagged == [k \in 1..Len(images[i]) |-> current_face_id]
         IN  TrainFrom([db EXCEPT !.names = DictSet(@, current_face_id, folders[i]),
                                  !.encodings = @ \o images[i],
                                  !.ids = @ \o tagged,
                                  !.next_id = current_face_id + 1],
                       folders, images, i + 1)

Train(folders, images) ==
    TrainFrom(DB(<<>>, <<>>, EmptyMap, 1, TrainTolerance), folders, images, 1)

\* The database file when the program starts: missing, or written by train().
TrainingRuns == {[folders |-> <<"alice", "bob">>, images |-> << <<0, 40>>, <<80>> >>]}

InitialFiles == {NoFile} \cup {SavedFile(Train(run.folders, run.images)) : run \in TrainingRuns}

\* Files that are not what save_database or train() write: one that pickle
\* cannot decode, and dicts from which one key is missing.
MalformedFiles ==
    {[f EXCEPT !.decodable = FALSE] : f \in InitialFiles \ {NoFile}}
        \cup {[f EXCEPT !.keys = Keys \ {k}] : f \in InitialFiles \ {NoFile}, k \in Keys}

\* ---- the state after construction ----
\* The last operation: its name, arguments and result; for a frame, the face
\* resolved per track, the tracks passed over and the tracks given a unique
\* id and the tracker ids of its detections; for merge_faces, the ids that
\* had a name before the call.
Op(op, a, b, ret) ==
    [op |-> op, a |-> a, b |-> b, ret |-> ret,
     faces |-> EmptyMap, faceless |-> {}, assigned |-> {}, named |-> {}, tracks |-> {}]

Init ==
    /\ known_face_encodings = <<>>
    /\ known_face_ids = <<>>
    /\ known_face_names = EmptyMap
    /\ next_face_id = 1
    /\ tolerance \in Tolerances
    /\ disk \in InitialFiles \cup MalformedFiles
    /\ persons = <<>>
    /\ track_id_to_unique_id = EmptyMap
    /\ next_unique_id = 1
    /\ use_face_recognition \in BOOLEAN
    /\ now = 0
    /\ resolved = {}
    /\ observed = EmptyMap
    /\ ops = 0
    /\ issued = {}
    /\ ever_issued = {}
    /\ last = Op("init", 0, 0, 0)

SetDB(db) ==
    /\ known_face_encodings' = db.encodings
    /\ known_face_ids' = db.ids
    /\ known_face_names' = db.names
    /\ next_face_id' = db.next_id
    /\ tolerance' = db.tolerance

\* ids handed out by _add_new_face between database db and database db2
NewIds(db, db2) == db.next_id..(db2.next_id - 1)

\* ---- operations on a FaceRecognizer ----
\* An exception that load_database let through ends the run.
Crashed == last.op = "load" /\ last.ret = Raised

Count ==
    /\ ~Crashed
    /\ ops < MaxOps
    /\ ops' = ops + 1

Add(e) ==
    /\ Count
    /\ next_face_id <= MaxFaceId
    /\ SetDB(AddNewFace(CurDB, e))
    /\ issued' = issued \cup {AddedId(CurDB)}
    /\ ever_issued' = ever_issued \cup {AddedId(CurDB)}
    /\ last' = Op("add", e, 0, AddedId(CurDB))
    /\ UNCHANGED <<disk, trvars>>

Detect(crop) ==
    LET r == DetectFaces(CurDB, crop)
    IN  /\ Count
        /\ r.db.next_id <= MaxFaceId + 1
        /\ SetDB(r.db)
        /\ issued' = issued \cup NewIds(CurDB, r.db)
        /\ ever_issued' = ever_issued \cup NewIds(CurDB, r.db)
        /\ last' = Op("detect", 0, 0, Len(r.faces))
        /\ UNCHANGED <<disk, trvars>>

SetFaceName(face_id, name) ==
    /\ Count
    /\ known_face_names' = DictSet(known_face_names, face_id, name)
    /\ last' = Op("set_face_name", face_id, 0, 0)
    /\ UNCHANGED <<known_face_encodings, known_face_ids, next_face_id, tolerance,
                   disk, trvars, issued, ever_issued>>

Merge(face_id_1, face_id_2) ==
    /\ Count
    /\ SetDB(MergeFaces(CurDB, face_id_1, face_id_2))
    /\ last' = [Op("merge", face_id_1, face_id_2,
                     Len(known_face_ids) - Len(MergeFaces(CurDB, face_id_1, face_id_2).ids))
                    EXCEPT !.named = DOMAIN known_face_names]
    /\ UNCHANGED <<disk, trvars, issued, ever_issued>>

Save ==
    /\ Count
    /\ disk' = SavedFile(CurDB)
    /\ last' = Op("save", 0, 0, 0)
    /\ UNCHANGED <<dbvars, trvars, issued, ever_issued>>

Load ==
    /\ Count
    /\ SetDB(LoadDatabase(CurDB, disk).db)
    /\ issued' = IF LoadDatabase(CurDB, disk).ret = LoadTrue THEN {} ELSE issued
    /\ last' = Op("load", 0, 0, LoadDatabase(CurDB, disk).ret)
    /\ UNCHANGED <<disk, trvars, ever_issued>>

Crops == {<<>>} \cup {<<e>> : e \in Encodings} \cup {<<0, 80>>, <<40, 40>>}

InitDB == Init /\ use_face_recognition = FALSE /\ disk \in InitialFiles

NextDB ==
    \/ \E e \in Encodings : Add(e)
    \/ \E crop \in Crops : Detect(crop)
    \/ \E face_id \in FaceIds, name \in Names : SetFaceName(face_id, name)
    \/ \E face_id_1 \in FaceIds, face_id_2 \in FaceIds : Merge(face_id_1, face_id_2)
    \/ Save
    \/ Load

SpecDB == InitDB /\ [][NextDB]_vars

\* The operations that work on the lists in memory, from an empty database.
InitMem == InitDB /\ disk = NoFile

NextMem ==
    \/ \E e \in Encodings : Add(e)
    \/ \E crop \in Crops : Detect(crop)
    \/ \E face_id \in FaceIds, name \in Names : SetFaceName(face_id, name)
    \/ \E face_id_1 \in FaceIds, face_id_2 \in FaceIds : Merge(face_id_1, face_id_2)

SpecMem == InitMem /\ [][NextMem]_vars

\* The same operations, started also on files that are not well formed.
InitLoad == Init /\ use_face_recognition = FALSE

SpecLoad == InitLoad /\ [][NextDB]_vars

\* ---- PersonTracker ----
HistoryCap == 30

\* persons is a Python dict: its entries in insertion order.
TrackIndex(ps, track_id) ==
    IF \E i \in 1..Len(ps) : ps[i].track_id = track_id
    THEN CHOOSE i \in 1..Len(ps) : ps[i].track_id = track_id
    ELSE 0

Tracked(ps) == {ps[i].track_id : i \in 1..Len(ps)}

Person(ps, track_id) == ps[TrackIndex(ps, track_id)]

\* PersonTracker._find_track_id_by_face: the first entry, in insertion order
RECURSIVE FindFrom(_, _, _)
FindFrom(ps, face_id, i) ==
    IF i > Len(ps) THEN None
    ELSE IF ps[i].face_id = face_id THEN ps[i].track_id
         ELSE FindFrom(ps, face_id, i + 1)

FindTrackIdByFaceMutant(ps, face_id) ==
    IF \E i \in 1..Len(ps) : ps[i].face_id = face_id
    THEN CHOOSE t \in {ps[i].track_id : i \in {j \in 1..Len(ps) : ps[j].face_id = face_id}} :
             \A i \in 1..Len(ps) : ps[i].face_id = face_id => t <= ps[i].track_id
    ELSE None

FindTrackIdByFace(ps, face_id) == FindFrom(ps, face_id, 1)

NeedsUniqueIdMutant(map, track_id) == TRUE

NeedsUniqueId(map, track_id) == track_id \notin DOMAIN map

\* One detection of a frame: the ByteTrack id, whether the clipped crop is
\* empty (person_crop.size == 0), the encodings of the faces in the crop, and
\* whether face_recognition raises on the crop.
Detection(track_id, empty, crop) ==
    [track_id |-> track_id, empty |-> empty, crop |-> crop, raises |-> FALSE]

\* A detection on whose crop cv2 or face_recognition raises inside detect_faces.
FailingDetection(track_id) ==
    [track_id |-> track_id, empty |-> FALSE, crop |-> <<>>, raises |-> TRUE]

\* The resolver's state while a frame is processed.
Resolver(db, ps, map, nuid, res, faces, faceless) ==
    [db |-> db, persons |-> ps, map |-> map, next_unique_id |-> nuid,
     resolved |-> res, faces |-> faces, faceless |-> faceless, raised |-> FALSE]

AssignUniqueIdMutant(st, track_id, face_id) ==
    IF NeedsUniqueId(st.map, track_id)
    THEN LET existing_track_id == FindTrackIdByFace(st.persons, face_id)
         IN  IF existing_track_id # None
             THEN [st EXCEPT !.map = DictSet(@, track_id, st.map[existing_track_id]),
                             !.next_unique_id = @ + 1]
             ELSE [st EXCEPT !.map = DictSet(@, track_id, st.next_unique_id),
                             !.next_unique_id = @ + 1]
    ELSE st

\* lines 152-164: the unique id of a track that resolved face_id
AssignUniqueId(st, track_id, face_id) ==
    IF NeedsUniqueId(st.map, track_id)
    THEN LET existing_track_id == FindTrackIdByFace(st.persons, face_id)
         IN  IF existing_track_id # None
             THEN [st EXCEPT !.map = DictSet(@, track_id, st.map[existing_track_id])]
             ELSE [st EXCEPT !.map = DictSet(@, track_id, st.next_unique_id),
                             !.next_unique_id = @ + 1]
    ELSE st

RecordFaceMutant(st, track_id, face_id) ==
    IF track_id \in Tracked(st.persons)
    THEN [st EXCEPT !.persons[TrackIndex(st.persons, track_id)] = [@ EXCEPT !.face_id = face_id]]
    ELSE st

\* lines 166-169: the face id and the unique id written to the person's entry
RecordFace(st, track_id, face_id) ==
    IF track_id \in Tracked(st.persons)
    THEN [st EXCEPT !.persons[TrackIndex(st.persons, track_id)] =
                        [@ EXCEPT !.face_id = face_id, !.unique_id = st.map[track_id]]]
    ELSE st

ProvisionalIdMutant(st, track_id) ==
    [st EXCEPT !.faceless = @ \cup {track_id},
               !.map = IF track_id \in DOMAIN @ THEN @ ELSE DictSet(@, track_id, track_id)]

\* lines 140-141 and the absent else of line 146: a detection with an empty
\* crop or without a face is passed over
SkipDetection(st, track_id) == [st EXCEPT !.faceless = @ \cup {track_id}]

\* PersonTracker._process_faces
RECURSIVE ProcessFacesFrom(_, _, _)
ProcessFacesFrom(st, frame, idx) ==
    IF idx > Len(frame) THEN st
    ELSE LET det == frame[idx]
             track_id == det.track_id
         IN  IF det.empty
             THEN ProcessFacesFrom(SkipDetection(st, track_id), frame, idx + 1)
             ELSE IF det.raises
             THEN [st EXCEPT !.raised = TRUE]
             ELSE LET r == DetectFaces(st.db, det.crop)
                      st1 == [st EXCEPT !.db = r.db]
                  IN  IF Len(r.faces) > 0
                      THEN LET face_id == r.faces[1].face_id
                               st2 == AssignUniqueId(st1, track_id, face_id)
                               st3 == RecordFace(st2, track_id, face_id)
                           IN  ProcessFacesFrom(
                                   [st3 EXCEPT !.resolved = @ \cup {<<track_id, face_id>>},
                                               !.faces = DictSet(@, track_id, face_id)],
                                   frame, idx + 1)
                      ELSE ProcessFacesFrom(SkipDetection(st1, track_id), frame, idx + 1)

ProcessFaces(st, frame) == ProcessFacesFrom(st, frame, 1)

LastNMutant(s, n) == IF Len(s) > n THEN SubSeq(s, 1, n) ELSE s

\* bbox_history[-30:]
LastN(s, n) == IF Len(s) > n THEN SubSeq(s, Len(s) - n + 1, Len(s)) ELSE s

SeenAgainMutant(person, current_time, bbox) ==
    [person EXCEPT !.last_seen = current_time,
                   !.total_frames = Len(person.bbox_history) + 1,
                   !.bbox_history = <<bbox>>]

\* lines 198-207: a later sight of a registered track
SeenAgain(person, current_time, bbox) ==
    [person EXCEPT !.last_seen = current_time,
                   !.total_frames = @ + 1,
                   !.bbox_history = LastN(Append(@, bbox), HistoryCap)]

\* PersonTracker._update_person_info; the box of a detection is named by the
\* time of its frame.
RECURSIVE UpdatePersonInfoFrom(_, _, _, _)
UpdatePersonInfoFrom(ps, frame, current_time, idx) ==
    IF idx > Len(frame) THEN ps
    ELSE LET track_id == frame[idx].track_id
             bbox == current_time
         IN  IF track_id \notin Tracked(ps)
             THEN UpdatePersonInfoFrom(
                      Append(ps, [track_id |-> track_id, first_seen |-> current_time,
                                  last_seen |-> current_time, total_frames |-> 1,
                                  bbox_history |-> <<bbox>>, face_id |-> None,
                                  unique_id |-> None]),
                      frame, current_time, idx + 1)
             ELSE UpdatePersonInfoFrom(
                      [ps EXCEPT ![TrackIndex(ps, track_id)] = SeenAgain(@, current_time, bbox)],
                      frame, current_time, idx + 1)

UpdatePersonInfoMutant(ps, frame, current_time) ==
    UpdatePersonInfoFrom(
        SelectSeq(ps, LAMBDA person : \E i \in 1..Len(frame) : frame[i].track_id = person.track_id),
        frame, current_time, 1)

UpdatePersonInfo(ps, frame, current_time) == UpdatePersonInfoFrom(ps, frame, current_time, 1)

\* The tracker ids among the detections of a frame.
TracksIn(frame) == {frame[i].track_id : i \in 1..Len(frame)}

\* The boxes handed to _update_person_info, per track, after one more frame.
Observe(obs, frame, current_time) ==
    [t \in (DOMAIN obs) \cup TracksIn(frame) |->
        IF t \in TracksIn(frame)
        THEN Append(IF t \in DOMAIN obs THEN obs[t] ELSE <<>>, current_time)
        ELSE obs[t]]

\* An exception that detect_and_track let through ends the loop over the
\* frames in process_video and process_images.
Stopped == last.op = "frame" /\ last.ret = Raised

\* PersonTracker.detect_and_track: an exception raised in _process_faces
\* leaves before _update_person_info is called
DetectAndTrack(frame) ==
    LET st0 == Resolver(CurDB, persons, track_id_to_unique_id, next_unique_id,
                        resolved, EmptyMap, {})
        st == IF use_face_recognition THEN ProcessFaces(st0, frame) ELSE st0
    IN  /\ ~Stopped
        /\ st.db.next_id <= MaxFaceId + 1
        /\ SetDB(st.db)
        /\ track_id_to_unique_id' = st.map
        /\ next_unique_id' = st.next_unique_id
        /\ resolved' = st.resolved
        /\ persons' = IF st.raised THEN st.persons
                       ELSE UpdatePersonInfo(st.persons, frame, now + 1)
        /\ observed' = IF st.raised THEN observed ELSE Observe(observed, frame, now + 1)
        /\ now' = now + 1
        /\ issued' = issued \cup NewIds(CurDB, st.db)
        /\ ever_issued' = ever_issued \cup NewIds(CurDB, st.db)
        /\ last' = [Op("frame", 0, 0, IF st.raised THEN Raised ELSE 0) EXCEPT
                        !.tracks = TracksIn(frame),
                        !.faces = st.faces, !.faceless = st.faceless,
                        !.assigned = (DOMAIN st.map) \ (DOMAIN track_id_to_unique_id)]
        /\ UNCHANGED <<disk, use_face_recognition, ops>>

\* PersonTracker.get_tracking_summary: total_unique_persons
TotalUniquePersons(ps, use) ==
    IF use
    THEN LET unique_ids == {ps[i].unique_id : i \in {j \in 1..Len(ps) : ps[j].unique_id # None}}
         IN  IF unique_ids # {} THEN Cardinality(unique_ids) ELSE Len(ps)
    ELSE Len(ps)

ResetMutant ==
    /\ persons' = <<>>
    /\ track_id_to_unique_id' = EmptyMap
    /\ next_unique_id' = 1
    /\ resolved' = {}
    /\ observed' = EmptyMap
    /\ last' = Op("reset", 0, 0, 0)
    /\ SetDB(DB(<<>>, <<>>, EmptyMap, 1, tolerance))
    /\ UNCHANGED <<disk, use_face_recognition, now, ops, issued, ever_issued>>

\* PersonTracker.reset
Reset ==
    /\ persons' = <<>>
    /\ track_id_to_unique_id' = EmptyMap
    /\ next_unique_id' = 1
    /\ resolved' = {}
    /\ observed' = EmptyMap
    /\ last' = Op("reset", 0, 0, 0)
    /\ UNCHANGED <<dbvars, disk, use_face_recognition, now, ops, issued, ever_issued>>

\* The crops of the detections of a frame: no face, or one face.
FaceCrops == {<<0>>, <<80>>}

Detections(tracks, crops) ==
    {Detection(t, TRUE, <<>>) : t \in tracks}
        \cup {Detection(t, FALSE, crop) : t \in tracks, crop \in crops}

\* ByteTrack gives the detections of one frame different ids.
FramesOf(dets) ==
    {f \in UNION {[1..n -> dets] : n \in 0..MaxDetections} :
        \A i, j \in 1..Len(f) : i # j => f[i].track_id # f[j].track_id}

Frames == FramesOf(Detections(FewTrackIds, {<<>>} \cup FaceCrops))

InitTracker == Init /\ disk = NoFile /\ tolerance = DefaultTolerance

Next ==
    \/ \E frame \in Frames : now < MaxFrames /\ DetectAndTrack(frame)
    \/ Reset

Spec == InitTracker /\ [][Next]_vars

\* Every crop shows a face, and ByteTrack numbers the tracks in the order in
\* which they appear.
FaceFrames == FramesOf({Detection(t, FALSE, crop) : t \in TrackIds, crop \in FaceCrops})

RECURSIVE NumberedInOrder(_, _, _)
NumberedInOrder(frame, idx, known) ==
    IF idx > Len(frame) THEN TRUE
    ELSE IF frame[idx].track_id <= known THEN NumberedInOrder(frame, idx + 1, known)
         ELSE /\ frame[idx].track_id = known + 1
              /\ NumberedInOrder(frame, idx + 1, known + 1)

NextFaces ==
    \E frame \in FaceFrames :
        /\ NumberedInOrder(frame, 1, Len(persons))
        /\ now < MaxFaceFrames
        /\ DetectAndTrack(frame)

\* One track followed for many frames; the camera is empty now and then
\* during the first frames.
HistoryFrames == {<<>>, <<Detection(1, TRUE, <<>>)>>}

NextHistory ==
    \/ \E frame \in HistoryFrames :
           /\ now < MaxHistoryFrames
           /\ frame = <<>> => now < MaxFrames
           /\ DetectAndTrack(frame)
    \/ Reset

SpecHistory == InitTracker /\ [][NextHistory]_vars

InitFaces == InitTracker /\ use_face_recognition = TRUE

\* ---- the person crop of _process_faces (lines 134-141) ----
\* Position i of a numpy slice on an axis of length n: a negative position
\* counts from the end, and positions are clamped to the axis.
SliceBound(n, i) ==
    IF i < 0 THEN (IF i + n < 0 THEN 0 ELSE i + n)
    ELSE IF i > n THEN n ELSE i

\* The indices selected by axis[lo:hi]
Slice(n, lo, hi) == {k \in 0..(n - 1) : SliceBound(n, lo) <= k /\ k < SliceBound(n, hi)}

PyMax(a, b) == IF a >= b THEN a ELSE b

PyMin(a, b) == IF a <= b THEN a ELSE b

\* frame[y1:y2, x1:x2] after the clamping of lines 135-136; shape is
\* (height, width) and bbox is (x1, y1, x2, y2)
PersonCrop(shape, bbox) ==
    [rows |-> Slice(shape[1], PyMax(0, bbox[2]), PyMin(shape[1], bbox[4])),
     cols |-> Slice(shape[2], PyMax(0, bbox[1]), PyMin(shape[2], bbox[3]))]

\* person_crop.size of a three-channel image
CropSize(crop) == Cardinality(crop.rows) * Cardinality(crop.cols) * 3

Coordinates == (-2)..MaxCoordinate

Boxes == Coordinates \X Coordinates \X Coordinates \X Coordinates

Shapes == (2..MaxSide) \X (2..MaxSide)

\* The crop step of one detection: detect_faces is called when the size
\* returned is not 0.
CropPerson(shape, bbox) ==
    /\ last' = Op("crop", bbox, shape, CropSize(PersonCrop(shape, bbox)))
    /\ UNCHANGED <<dbvars, disk, trvars, ops, issued, ever_issued>>

\* The crop of one detection of the first frame.
NextCrop == \E shape \in Shapes, bbox \in Boxes : last.op = "init" /\ CropPerson(shape, bbox)

SpecCrop == InitFaces /\ [][NextCrop]_vars

\* One detection with a face per frame; ByteTrack's ids come in any order.
OrderFrames == {<<Detection(t, FALSE, crop)>> : t \in 1..3, crop \in FaceCrops}

NextOrder ==
    \/ \E frame \in OrderFrames : now < MaxOrderFrames /\ DetectAndTrack(frame)
    \/ Reset

SpecOrder == InitFaces /\ [][NextOrder]_vars

\* Frames whose crops may also show two faces or make face_recognition raise.
AnyCropFrames ==
    FramesOf(Detections(FewTrackIds, {<<>>} \cup FaceCrops \cup {<<0, 80>>})
                 \cup {FailingDetection(t) : t \in FewTrackIds})

NextAnyCrop ==
    \/ \E frame \in AnyCropFrames : now < MaxFrames /\ DetectAndTrack(frame)
    \/ Reset

SpecAnyCrop == InitTracker /\ [][NextAnyCrop]_vars

SpecFaces == InitFaces /\ [][NextFaces]_vars

\* ======================= the claims =======================
TrackedNow == Tracked(persons)

PersonNow(t) == Person(persons, t)

\* The tracks other than t for which face_id was resolved in an earlier frame
\* since the last reset.
EarlierTracks(t, face_id) == {t2 \in TrackIds : t2 # t /\ <<t2, face_id>> \in resolved}

\* C1: a track without a unique id whose face was resolved for another track
\* in an earlier frame since the last reset gets that track's unique id, and
\* no fresh unique id is allocated for it, however many frames the earlier
\* track was seen in.
C1_ReentryMerge ==
    [][last'.op = "frame" =>
        \A t \in DOMAIN last'.faces :
            (t \notin DOMAIN track_id_to_unique_id /\ EarlierTracks(t, last'.faces[t]) # {})
            => /\ track_id_to_unique_id'[t] \in
                      {track_id_to_unique_id[t2] : t2 \in EarlierTracks(t, last'.faces[t])}
               /\ track_id_to_unique_id'[t] < next_unique_id]_vars

\* C2: two different tracks without a unique id whose crops resolve, in the
\* same frame, to two different face ids get two different unique ids.
C2_DistinctFacesDistinctIds ==
    [][last'.op = "frame" =>
        \A t1, t2 \in DOMAIN last'.faces :
            (/\ t1 # t2
             /\ t1 \notin DOMAIN track_id_to_unique_id
             /\ t2 \notin DOMAIN track_id_to_unique_id
             /\ last'.faces[t1] # last'.faces[t2])
            => track_id_to_unique_id'[t1] # track_id_to_unique_id'[t2]]_vars

\* C3: between two resets the unique id of a track is assigned at most once:
\* once track_id_to_unique_id[t] or persons[t].unique_id holds a value, no
\* later frame changes it, whatever face the track's crop resolves to.
C3_UniqueIdAssignedOnce ==
    [][last'.op # "reset" =>
        \A t \in TrackIds :
            /\ t \in DOMAIN track_id_to_unique_id
               => /\ t \in DOMAIN track_id_to_unique_id'
                  /\ track_id_to_unique_id'[t] = track_id_to_unique_id[t]
            /\ (t \in TrackedNow /\ PersonNow(t).unique_id # None)
               => /\ t \in Tracked(persons')
                  /\ Person(persons', t).unique_id = PersonNow(t).unique_id]_vars

\* C3 witness: a track that resolved one face earlier has just resolved
\* another one, and carries a unique id.
C3_Witness ==
    /\ last.op = "frame"
    /\ \E t \in DOMAIN last.faces :
        /\ \E f \in FaceIds : f # last.faces[t] /\ <<t, f>> \in resolved
        /\ t \in TrackedNow
        /\ PersonNow(t).face_id = last.faces[t]
        /\ PersonNow(t).unique_id # None
        /\ PersonNow(t).unique_id = track_id_to_unique_id[t]

\* C4: after a frame in which the crop of track t yielded a face, persons[t]
\* exists with the face id resolved in that frame and with the unique id
\* track_id_to_unique_id[t], also when t is seen for the first time.
C4_FaceRecorded ==
    last.op = "frame" =>
        \A t \in DOMAIN last.faces :
            /\ t \in TrackedNow
            /\ PersonNow(t).face_id = last.faces[t]
            /\ PersonNow(t).unique_id = track_id_to_unique_id[t]

\* C5: a detection with an empty crop or without a face leaves the unique id
\* and the face id of its track as they were (unset stays unset) and changes
\* neither track_id_to_unique_id, next_unique_id nor the face database; a
\* track whose detections so far were all face-less has no unique id, and
\* gets one, recorded on its entry, with the first detection that shows a face.
C5_FacelessChangesNothing ==
    [][last'.op = "frame" =>
        /\ \A t \in last'.faceless :
            /\ t \in Tracked(persons')
            /\ Person(persons', t).unique_id =
                   (IF t \in TrackedNow THEN PersonNow(t).unique_id ELSE None)
            /\ Person(persons', t).face_id =
                   (IF t \in TrackedNow THEN PersonNow(t).face_id ELSE None)
            /\ (t \in DOMAIN track_id_to_unique_id') = (t \in DOMAIN track_id_to_unique_id)
            /\ t \in DOMAIN track_id_to_unique_id
               => track_id_to_unique_id'[t] = track_id_to_unique_id[t]
        /\ DOMAIN last'.faces = {}
           => /\ track_id_to_unique_id' = track_id_to_unique_id
              /\ next_unique_id' = next_unique_id
              /\ CurDB' = CurDB
        /\ (DOMAIN track_id_to_unique_id') \ (DOMAIN track_id_to_unique_id)
               \subseteq DOMAIN last'.faces
        /\ \A t \in TrackedNow \ DOMAIN track_id_to_unique_id :
            /\ PersonNow(t).unique_id = None
            /\ PersonNow(t).face_id = None
            /\ t \in DOMAIN last'.faces
               => /\ t \in DOMAIN track_id_to_unique_id'
                  /\ Person(persons', t).unique_id = track_id_to_unique_id'[t]
                  /\ Person(persons', t).unique_id # None
                  /\ Person(persons', t).face_id = last'.faces[t]]_vars

\* C5 witness: a track seen before without a face has just got its unique id.
C5_Witness ==
    /\ last.op = "frame"
    /\ \E t \in last.assigned :
        /\ t \in DOMAIN last.faces
        /\ PersonNow(t).total_frames >= 2
        /\ PersonNow(t).unique_id = track_id_to_unique_id[t]
        /\ PersonNow(t).unique_id # None

\* ---- the face database ----
Indices(db) == 1..Len(db.encodings)

\* The least distance from e to a stored encoding.
MinDistance(db, e) ==
    CHOOSE d \in {Distance(db.encodings[i], e) : i \in Indices(db)} :
        \A j \in Indices(db) : d <= Distance(db.encodings[j], e)

\* The earliest-inserted record at the least distance from e.
EarliestNearest(db, e) ==
    CHOOSE i \in Indices(db) :
        /\ Distance(db.encodings[i], e) = MinDistance(db, e)
        /\ \A j \in 1..(i - 1) : Distance(db.encodings[j], e) # MinDistance(db, e)

\* What match(e) is to return on db.
Matches(db, e) == Len(db.encodings) > 0 /\ MinDistance(db, e) <= db.tolerance

\* C6: match(e) returns no-match when the database is empty or the least
\* distance exceeds the tolerance (a distance equal to the tolerance matches);
\* otherwise the id of the earliest-inserted record at the least distance.
\* The same holds of find_match on the database file read by the face watcher.
C6_MatchNearestEarliest ==
    \A e \in Encodings :
        /\ IF Matches(CurDB, e)
           THEN MatchFace(CurDB, e).face_id = known_face_ids[EarliestNearest(CurDB, e)]
           ELSE MatchFace(CurDB, e) = NoMatch
        /\ disk.exists =>
            LET db == WatcherDB(disk.data)
                m == FindMatch(db, e)
            IN  IF Matches(db, e)
                THEN LET face_id == db.ids[EarliestNearest(db, e)]
                     IN  /\ m.found
                         /\ m.distance = MinDistance(db, e)
                         /\ IF face_id \in DOMAIN db.names
                            THEN m.name = db.names[face_id]
                            ELSE m.face_id = face_id
                ELSE ~m.found

\* C6 witness: two records with different ids are both at the least distance
\* from a probe, that distance is exactly the tolerance, and the earlier one
\* is returned.
C6_Witness ==
    \E e \in Encodings : \E i, j \in Indices(CurDB) :
        /\ i < j
        /\ known_face_ids[i] # known_face_ids[j]
        /\ known_face_encodings[i] # known_face_encodings[j]
        /\ Distance(known_face_encodings[i], e) = tolerance
        /\ Distance(known_face_encodings[j], e) = tolerance
        /\ MinDistance(CurDB, e) = tolerance
        /\ MatchFace(CurDB, e).face_id = known_face_ids[i]

\* C7 as stated: for every stored record, match of its encoding returns the
\* id stored with it, at distance 0.
C7_ReflexiveOwnId ==
    \A i \in Indices(CurDB) :
        /\ MatchFace(CurDB, known_face_encodings[i]).face_id = known_face_ids[i]
        /\ MatchFace(CurDB, known_face_encodings[i]).confidence = One

\* The earliest-inserted record holding encoding e.
EarliestWith(db, e) ==
    CHOOSE i \in Indices(db) :
        db.encodings[i] = e /\ \A j \in 1..(i - 1) : db.encodings[j] # e

\* C7 amended: for every stored encoding e, match(e) returns, at distance 0,
\* the id of the earliest-inserted record whose encoding is e (its own id
\* when e is stored once).
C7_ReflexiveEarliest ==
    \A i \in Indices(CurDB) :
        LET e == known_face_encodings[i]
        IN  /\ MatchFace(CurDB, e).face_id = known_face_ids[EarliestWith(CurDB, e)]
            /\ MatchFace(CurDB, e).confidence = One

\* C7 witness: a loaded database to which an encoding it already held was
\* added again, under a second id.
C7_Witness ==
    /\ last.op = "add"
    /\ issued # ever_issued
    /\ \E i, j \in Indices(CurDB) :
        /\ i < j
        /\ known_face_encodings[i] = known_face_encodings[j]
        /\ known_face_ids[i] # known_face_ids[j]
        /\ MatchFace(CurDB, known_face_encodings[j]).face_id = known_face_ids[i]

\* C8 as stated: add appends one record and returns an id never returned
\* before by this database, greater than all ids returned earlier.
C8_AddNeverReissues ==
    [][last'.op = "add" =>
        /\ known_face_encodings' = Append(known_face_encodings, last'.a)
        /\ known_face_ids' = Append(known_face_ids, last'.ret)
        /\ last'.ret \notin ever_issued
        /\ \A id \in ever_issued : last'.ret > id]_vars

\* C8 amended: add appends one record and returns next_face_id, which is
\* greater than every id in the id list and than every id returned since the
\* database was constructed or last loaded; the first add on a new database
\* returns 1; merge removes only ids below next_face_id, and only
\* load_database lowers next_face_id.
C8_AddFreshSinceLoad ==
    [][/\ last'.op = "add" =>
            /\ known_face_encodings' = Append(known_face_encodings, last'.a)
            /\ known_face_ids' = Append(known_face_ids, last'.ret)
            /\ last'.ret = next_face_id
            /\ next_face_id' = next_face_id + 1
            /\ \A id \in Range(known_face_ids) \cup issued : last'.ret > id
            /\ ops = 0 => last'.ret = 1
       /\ last'.op = "merge" =>
            \A id \in Range(known_face_ids) \ Range(known_face_ids') : id < next_face_id'
       /\ ~(last'.op = "load" /\ last'.ret = 1) => next_face_id' >= next_face_id]_vars

\* C8 witness: add has given an encoding that was already stored a second id.
C8_Witness ==
    /\ last.op = "add"
    /\ Len(known_face_ids) >= 2
    /\ known_face_ids[Len(known_face_ids)] = last.ret
    /\ \E i \in 1..(Len(known_face_ids) - 1) :
        /\ known_face_encodings[i] = last.a
        /\ known_face_ids[i] # last.ret

\* The number of records tagged face_id.
CountOf(ids, face_id) == Cardinality({i \in 1..Len(ids) : ids[i] = face_id})

\* C9: after merge(keep, drop) with keep # drop, the number of encodings
\* tagged keep is the number tagged keep before plus the number tagged drop
\* before.
C9_MergeKeepsEncodings ==
    [][(last'.op = "merge" /\ last'.a # last'.b) =>
        CountOf(known_face_ids', last'.a) =
            CountOf(known_face_ids, last'.a) + CountOf(known_face_ids, last'.b)]_vars

\* C10: after merge(keep, drop), drop is neither in the id list nor a key of
\* the name map.
C10_DropGone ==
    last.op = "merge" =>
        /\ last.b \notin Range(known_face_ids)
        /\ last.b \notin DOMAIN known_face_names

\* C10 witness: a merge has removed two records of drop, and drop had a name
\* that keep, named already, did not take over.
C10_Witness ==
    /\ last.op = "merge"
    /\ last.a # last.b
    /\ last.ret >= 2
    /\ last.a \in DOMAIN known_face_names
    /\ last.a \in Range(known_face_ids)

C12_MergeAbsentNoOp ==
    [][(last'.op = "merge" /\ last'.b \notin Range(known_face_ids)) => CurDB' = CurDB]_vars

\* A recognizer that was just constructed with tolerance tol.
Fresh(tol) == DB(<<>>, <<>>, EmptyMap, 1, tol)

\* C13: the file save_database writes from the current database, loaded by
\* the same recognizer or by a new one constructed with any tolerance, gives
\* back the same encodings, ids, names, next_face_id and tolerance; save
\* writes that file, and a load that returned True left the file's content.
C13_RoundTrip ==
    /\ LoadDatabase(CurDB, SavedFile(CurDB)) = [db |-> CurDB, ret |-> LoadTrue]
    /\ \A tol \in Tolerances :
           LoadDatabase(Fresh(tol), SavedFile(CurDB)) = [db |-> CurDB, ret |-> LoadTrue]
    /\ last.op = "save" => disk = SavedFile(CurDB)
    /\ (last.op = "load" /\ last.ret = LoadTrue) => CurDB = disk.data

\* C13 witness: a database with a record and a name was saved and loaded back.
C13_Witness ==
    /\ last.op = "load"
    /\ last.ret = LoadTrue
    /\ disk \notin InitialFiles
    /\ Len(known_face_ids) > 0
    /\ DOMAIN known_face_names # {}
    /\ CurDB = disk.data

\* C14: load_database on a path where no file exists returns False and
\* leaves encodings, ids, names, next_face_id and tolerance as they were.
C14_LoadMissing ==
    [][(last'.op = "load" /\ ~disk.exists) =>
        /\ last'.ret = LoadFalse
        /\ CurDB' = CurDB]_vars

\* C14 witness: a load found no file, and the database, which holds a
\* record, is still there.
C14_Witness ==
    /\ last.op = "load"
    /\ last.ret = LoadFalse
    /\ ~disk.exists
    /\ Len(known_face_ids) > 0

\* C15: load_database on a file that cannot be decoded, or whose dict lacks
\* one of the five keys, raises, and leaves the database as it was.
C15_LoadAtomic ==
    [][(last'.op = "load" /\ disk.exists /\ (~disk.decodable \/ disk.keys # Keys)) =>
        /\ last'.ret = Raised
        /\ CurDB' = CurDB]_vars

\* The records of a database: position i of the encodings with position i of
\* the ids.
Pairs(encs, ids) == [i \in 1..Len(encs) |-> <<encs[i], ids[i]>>]

PairsNow == Pairs(known_face_encodings, known_face_ids)

NotTagged(ps, face_id) == SelectSeq(ps, LAMBDA pair : pair[2] # face_id)

\* C16: from an empty database, through detect_faces, add, set_face_name and
\* merge_faces, the encodings and the ids have the same length and stay
\* paired: add appends the pair of its encoding and its id, detect_faces
\* only appends pairs with new ids, set_face_name keeps the pairs, and
\* merge_faces removes the pairs tagged drop and keeps the others in order.
C16_ParallelLists ==
    [][/\ Len(known_face_encodings) = Len(known_face_ids)
       /\ Len(known_face_encodings') = Len(known_face_ids')
       /\ last'.op = "add" => Pairs(known_face_encodings', known_face_ids')
                                  = Append(PairsNow, <<last'.a, last'.ret>>)
       /\ last'.op = "set_face_name" => Pairs(known_face_encodings', known_face_ids') = PairsNow
       /\ last'.op = "merge" => Pairs(known_face_encodings', known_face_ids')
                                    = NotTagged(PairsNow, last'.b)
       /\ last'.op = "detect" =>
            /\ Len(known_face_ids') >= Len(known_face_ids)
            /\ SubSeq(Pairs(known_face_encodings', known_face_ids'), 1, Len(known_face_ids))
                   = PairsNow
            /\ \A i \in (Len(known_face_ids) + 1)..Len(known_face_ids') :
                   known_face_ids'[i] = next_face_id + (i - Len(known_face_ids) - 1)]_vars

\* C16 witness: a merge has removed a record from between two others, which
\* are still paired with their ids.
C16_Witness ==
    /\ last.op = "merge"
    /\ last.ret >= 1
    /\ Len(known_face_ids) >= 2
    /\ Len(known_face_encodings) = Len(known_face_ids)
    /\ last.b > known_face_ids[1]
    /\ last.b < known_face_ids[Len(known_face_ids)]

\* C17: after n observations of a track since the last reset its bbox_history
\* holds min(n, 30) boxes, the most recent ones in the order in which they
\* were observed, and never more than 30.
C17_BoundedHistory ==
    \A t \in TrackedNow :
        LET h == PersonNow(t).bbox_history
            n == Len(observed[t])
            k == IF n < 30 THEN n ELSE 30
        IN  /\ Len(h) = k
            /\ Len(h) <= 30
            /\ \A i \in 1..k : h[i] = observed[t][n - k + i]

\* C17 witness: a track observed more than 30 times, in frames that were not
\* all consecutive, has lost its oldest boxes.
C17_Witness ==
    \E t \in TrackedNow :
        /\ Len(observed[t]) > 30
        /\ PersonNow(t).total_frames > 30
        /\ Len(PersonNow(t).bbox_history) = 30
        /\ PersonNow(t).bbox_history[1] > PersonNow(t).first_seen
        /\ PersonNow(t).bbox_history[30] = now
        /\ PersonNow(t).first_seen = 1
        /\ now > PersonNow(t).total_frames

\* The tracks detected in the frame of the step.
Sighted(t) == t \in DOMAIN observed' /\ (t \notin DOMAIN observed \/ observed'[t] # observed[t])

\* C18: between two resets total_frames of a track is the number of frames
\* in which it was detected (1 on first sight, one more on each later sight),
\* first_seen is the time of the first of them and never changes, last_seen
\* is the time of the last of them and never moves backwards, and a frame
\* without the track changes none of its fields.
C18_FrameCount ==
    [][/\ \A t \in Tracked(persons') :
            /\ t \in DOMAIN observed'
            /\ Person(persons', t).total_frames = Len(observed'[t])
            /\ Person(persons', t).first_seen = observed'[t][1]
            /\ Person(persons', t).last_seen = observed'[t][Len(observed'[t])]
            /\ t \notin TrackedNow => Person(persons', t).total_frames = 1
       /\ last'.op # "reset" =>
            \A t \in TrackedNow :
                /\ t \in Tracked(persons')
                /\ Person(persons', t).total_frames >= PersonNow(t).total_frames
                /\ Person(persons', t).first_seen = PersonNow(t).first_seen
                /\ Person(persons', t).last_seen >= PersonNow(t).last_seen
                /\ IF Sighted(t)
                   THEN Person(persons', t).total_frames = PersonNow(t).total_frames + 1
                   ELSE Person(persons', t) = PersonNow(t)]_vars

\* C18 witness: a track seen in the first and the third frame, missing from
\* the second, while another track was registered.
C18_Witness ==
    /\ last.op = "frame"
    /\ \E t \in TrackedNow :
        /\ PersonNow(t).total_frames = 2
        /\ PersonNow(t).first_seen = 1
        /\ PersonNow(t).last_seen = 3
        /\ \E t2 \in TrackedNow : t2 # t /\ PersonNow(t2).last_seen = 2

\* C19: reset empties persons and track_id_to_unique_id, sets next_unique_id
\* back to 1 and leaves encodings, ids, names, next_face_id and tolerance as
\* they were, so that every encoding matches as it did before the reset.
C19_ResetKeepsFaces ==
    [][last'.op = "reset" =>
        /\ persons' = <<>>
        /\ track_id_to_unique_id' = EmptyMap
        /\ next_unique_id' = 1
        /\ CurDB' = CurDB
        /\ \A i \in 1..Len(known_face_encodings) :
               /\ MatchFace(CurDB', known_face_encodings[i]) = MatchFace(CurDB, known_face_encodings[i])
               /\ MatchFace(CurDB', known_face_encodings[i]).face_id # None]_vars

\* C19 witness: after a reset the registry is empty, and the two faces the
\* database learnt before it still match their ids.
C19_Witness ==
    /\ last.op = "reset"
    /\ persons = <<>>
    /\ next_unique_id = 1
    /\ Len(known_face_ids) = 2
    /\ \A i \in 1..2 : MatchFace(CurDB, known_face_encodings[i]).face_id = known_face_ids[i]

\* The unique ids that are set on the entries of the registry.
SetUniqueIds == {PersonNow(t).unique_id : t \in {t2 \in TrackedNow : PersonNow(t2).unique_id # None}}

\* C20: total_unique_persons of the summary is, with face recognition, the
\* number of different unique ids set on the entries plus the number of
\* entries without a unique id, and without face recognition the number of
\* entries.
C20_SummaryCount ==
    TotalUniquePersons(persons, use_face_recognition) =
        IF use_face_recognition
        THEN Cardinality(SetUniqueIds)
                 + Cardinality({t \in TrackedNow : PersonNow(t).unique_id = None})
        ELSE Cardinality(TrackedNow)

\* C21: when face_recognition raises on the crop of one detection, the frame
\* is processed to its end: no exception leaves detect_and_track, every
\* detection of the frame was either face-resolved or passed over as showing
\* no face, and every detection is registered with this frame as last_seen.
C21_FailureIsNoFace ==
    [][last'.op = "frame" =>
        /\ last'.ret # Raised
        /\ use_face_recognition => last'.tracks = (DOMAIN last'.faces) \cup last'.faceless
        /\ \A t \in last'.tracks :
               /\ t \in Tracked(persons')
               /\ Person(persons', t).last_seen = now']_vars

\* C24: a frame adds to the face database at most one record per detection
\* that showed a face, and next_face_id advances by as much.
C24_FirstFaceOnly ==
    [][last'.op = "frame" =>
        /\ Len(known_face_ids') - Len(known_face_ids) <= Cardinality(DOMAIN last'.faces)
        /\ next_face_id' - next_face_id <= Cardinality(DOMAIN last'.faces)]_vars

\* The pixels of a crop, and the pixels of the frame that lie in a box.
Pixels(crop) == crop.rows \X crop.cols

BoxInFrame(shape, bbox) ==
    {px \in (0..(shape[1] - 1)) \X (0..(shape[2] - 1)) :
        /\ bbox[2] <= px[1] /\ px[1] < bbox[4]
        /\ bbox[1] <= px[2] /\ px[2] < bbox[3]}

\* C22: for every integer box and frame size the crop is the part of the
\* frame inside the box; when that part is empty (also for a box that lies
\* outside the frame, with negative x2 or y2) the crop has size 0, so that
\* detect_faces is not called.
C22_CropIsIntersection ==
    last.op = "crop" =>
        /\ Pixels(PersonCrop(last.b, last.a)) = BoxInFrame(last.b, last.a)
        /\ BoxInFrame(last.b, last.a) = {} => last.ret = 0

\* The positions, in order of registration, of the entries carrying face_id.
Carriers(face_id) == {i \in 1..Len(persons) : persons[i].face_id = face_id}

FirstCarrier(face_id) == CHOOSE i \in Carriers(face_id) : \A j \in Carriers(face_id) : i <= j

\* C23: a track without a unique id that resolves a face id carried by
\* several entries of the registry gets the unique id of the entry that was
\* registered first among them, whatever the numbers of the tracks.
C23_FirstRegisteredWins ==
    [][(last'.op = "frame" /\ Cardinality(last'.tracks) = 1) =>
        \A t \in DOMAIN last'.faces :
            (t \notin DOMAIN track_id_to_unique_id /\ Carriers(last'.faces[t]) # {})
            => track_id_to_unique_id'[t] = persons[FirstCarrier(last'.faces[t])].unique_id]_vars

\* C23 witness: two entries carry the face with different unique ids, the
\* one registered first has the higher track id, and the new track has got
\* the unique id of that one.
C23_Witness ==
    /\ last.op = "frame"
    /\ \E t \in last.assigned :
        /\ t \in DOMAIN last.faces
        /\ \E i, j \in Carriers(last.faces[t]) :
            /\ i < j
            /\ i = FirstCarrier(last.faces[t])
            /\ persons[i].track_id > persons[j].track_id
            /\ persons[i].track_id # t
            /\ persons[j].track_id # t
            /\ persons[i].unique_id # persons[j].unique_id
            /\ track_id_to_unique_id[t] = persons[i].unique_id

\* The track ids of the registry, in order of registration.
TrackOrder(ps) == [i \in 1..Len(ps) |-> ps[i].track_id]

\* C25: an entry of the registry stays through every later frame, whether
\* its track is detected or not: between resets the registered track ids
\* only grow, in the order of registration, and reset removes them all.
C25_RegistryOnlyGrows ==
    [][IF last'.op = "reset"
       THEN persons' = <<>>
       ELSE /\ Len(persons') >= Len(persons)
            /\ SubSeq(TrackOrder(persons'), 1, Len(persons)) = TrackOrder(persons)]_vars

\* C25 witness: a track seen in the first frame only is still registered
\* two frames later, next to a track registered after it.
C25_Witness ==
    /\ last.op = "frame"
    /\ now = 3
    /\ Len(persons) = 2
    /\ persons[1].last_seen = 1
    /\ persons[2].first_seen > 1

\* C26: every entry whose face_id is set has its track id in
\* track_id_to_unique_id and carries the unique id mapped there, so that the
\* lookup of line 158 finds its key.
C26_FaceImpliesMapped ==
    \A t \in TrackedNow :
        PersonNow(t).face_id # None
        => /\ t \in DOMAIN track_id_to_unique_id
           /\ PersonNow(t).unique_id = track_id_to_unique_id[t]

\* C26 witness: a track has just been given the unique id of another track
\* that carries the same face.
C26_Witness ==
    /\ last.op = "frame"
    /\ \E t \in last.assigned : \E t2 \in TrackedNow :
        /\ t2 # t
        /\ t \in DOMAIN last.faces
        /\ PersonNow(t2).face_id = last.faces[t]
        /\ PersonNow(t2).unique_id = track_id_to_unique_id[t2]
        /\ track_id_to_unique_id[t] = track_id_to_unique_id[t2]

\* C27: the unique ids in track_id_to_unique_id are exactly
\* 1 .. next_unique_id - 1.
C27_UniqueIdsContiguous ==
    {track_id_to_unique_id[t] : t \in DOMAIN track_id_to_unique_id} = 1..(next_unique_id - 1)

\* C27 witness: the second unique id has just been allocated.
C27_Witness ==
    /\ last.op = "frame"
    /\ last.assigned # {}
    /\ next_unique_id = 3
    /\ \E t \in last.assigned : track_id_to_unique_id[t] = 2

\* C28: through add, set_face_name and merge_faces, get_statistics reports
\* unnamed_faces >= 0 and named_faces <= total_faces.
C28_StatisticsNonNegative ==
    /\ GetStatistics(CurDB).unnamed_faces >= 0
    /\ GetStatistics(CurDB).named_faces <= GetStatistics(CurDB).total_faces

\* C29: merge_faces(k, k) for an id k that tags a record leaves encodings,
\* ids and names as they were.
C29_SelfMergeHarmless ==
    [][(last'.op = "merge" /\ last'.a = last'.b /\ last'.a \in Range(known_face_ids)) =>
        /\ known_face_encodings' = known_face_encodings
        /\ known_face_ids' = known_face_ids
        /\ known_face_names' = known_face_names]_vars

\* C30: merge(keep, drop) removes only records tagged drop and changes only
\* the names of keep and drop: the records of every other id stay with
\* their encodings, in their order, the names of third ids stay, and
\* next_face_id and tolerance stay.
C30_MergeFrame ==
    [][last'.op = "merge" =>
        /\ Len(known_face_encodings') = Len(known_face_ids')
        /\ Pairs(known_face_encodings', known_face_ids') = NotTagged(PairsNow, last'.b)
        /\ \A id \in FaceIds \ {last'.a, last'.b} :
               /\ CountOf(known_face_ids', id) = CountOf(known_face_ids, id)
               /\ (id \in DOMAIN known_face_names') = (id \in DOMAIN known_face_names)
               /\ id \in DOMAIN known_face_names
                  => known_face_names'[id] = known_face_names[id]
        /\ next_face_id' = next_face_id
        /\ tolerance' = tolerance]_vars

\* C30 witness: a merge has removed records of drop; a third id still has
\* its record, after the place of a removed one, and its name.
C30_Witness ==
    /\ last.op = "merge"
    /\ last.a # last.b
    /\ last.ret >= 1
    /\ \E id \in FaceIds \ {last.a, last.b} :
        /\ id \in Range(known_face_ids)
        /\ id \in DOMAIN known_face_names
        /\ id > last.b
    /\ last.a \in Range(known_face_ids)

====
